---- MODULE Spec2Model ----
(***************************************************************************)
(* Model of the Slack user mapper: the client service SlackService         *)
(* (getChannelMembers, getUserInfo, mapUserTagsToIds, storeMappings,       *)
(* getStoredMappings) and the mapping store of the proxy server            *)
(* (GET/POST /api/mappings).                                               *)
(*                                                                         *)
(* Strings are tuples of one-character strings, so that concatenation and  *)
(* JavaScript truthiness are computed.  Dates (the ISO day strings that    *)
(* new Date().toISOString().split('T')[0] yields) are day numbers 1, 2,    *)
(* ...; NoDate stands for an undefined addedOn.  The service is modelled   *)
(* with a token that is not a demo token.                                  *)
(***************************************************************************)
EXTENDS Integers, Sequences, FiniteSets, TLC

VARIABLES
    file,              \* server: parsed content of user_mappings.json
    clock,             \* the current day
    pc,                \* position of the pass (mapUserTagsToIds) in flight
    members,           \* getChannelMembers: accumulated identifiers
    cursor,            \* getChannelMembers: continuation cursor
    existingMappings,  \* mapUserTagsToIds: result of getStoredMappings
    today,             \* mapUserTagsToIds: the day read at line 155
    idx,               \* mapUserTagsToIds: position of the for-of loop
    userMappings,      \* mapUserTagsToIds: the output under construction
    firstAddedOn,      \* history: per userId, the addedOn persisted first
    rc,                \* reconcile applied to drawn inputs (SpecReconcile)
    en,                \* getChannelMembers with its requests and responses
                       \* on record (SpecEnumerate)
    tr,                \* the requests and responses of the pass in flight,
                       \* on record when tr.on (SpecTrace)
    st,                \* server: user_mappings.json on disk and the last
                       \* response of /api/mappings (SpecStorage)
    ui,                \* the SlackIntegration component (SpecUi)
    dm,                \* server: a request to /api/slack/send-dm (SpecDm)
    mg,                \* server: the merge of a save applied to drawn inputs (SpecMerge)
    cc,                \* two passes of mapUserTagsToIds against one store (SpecConcurrent)
    tm                 \* TagMapper: tagPairs and the two input fields (SpecTagMapper)

vars == <<file, clock, pc, members, cursor, existingMappings, today, idx,
          userMappings, firstAddedOn, rc, en, tr, st, ui, dm, mg, cc, tm>>

\* the variables of the specifications that stand beside the passes
aside == <<en, st, ui, dm, mg, cc, tm>>

(***************************************************************************)
(* Bounds                                                                  *)
(***************************************************************************)
MaxMembers == 2
MaxDate == 2
MaxPages == 3
\* passes of one component in flight at a time
MaxInFlight == 2
\* pairs in the list of the manual tag editor
MaxPairs == 2

NoDate == 0

Users == {"U1", "U2"}
Dates == 1..MaxDate

\* a value no string equals: JavaScript's undefined where a string is expected
Undefined == <<"undefined">>

\* the cursor variable before any response: JavaScript's undefined
NoCursor == "undefined"

SeqsUpTo(S, n) == UNION {[1..k -> S] : k \in 0..n}

Range(s) == {s[k] : k \in 1..Len(s)}

\* JavaScript truthiness of a string-or-undefined value
Truthy(v) == v # Undefined /\ v # <<>>

\* a || b on string-or-undefined values
OrElse(a, b) == IF Truthy(a) THEN a ELSE b

\* JavaScript truthiness of an addedOn value (a non-empty day string or undefined)
TruthyDate(d) == d # NoDate

(***************************************************************************)
(* Responses of the proxy to GET /api/slack/users.info                     *)
(***************************************************************************)
SlackUser(name, real_name, is_bot, deleted) ==
    [name |-> name, profile |-> [real_name |-> real_name],
     is_bot |-> is_bot, deleted |-> deleted]

NoUser == SlackUser(<<>>, <<>>, FALSE, FALSE)

\* net: does fetch resolve; httpOk: response.ok; ok: data.ok; user: data.user
UserResponse(net, httpOk, ok, user) ==
    [net |-> net, httpOk |-> httpOk, ok |-> ok, user |-> user]

UserResponses ==
    { UserResponse(FALSE, FALSE, FALSE, NoUser),
      UserResponse(TRUE, FALSE, FALSE, NoUser),
      UserResponse(TRUE, TRUE, FALSE, NoUser) }
    \cup
    { UserResponse(TRUE, TRUE, TRUE, u) :
        u \in { SlackUser(<<"a">>, <<"A">>, FALSE, FALSE),
                SlackUser(<<"b">>, <<"B", "b">>, FALSE, FALSE),
                SlackUser(<<"a">>, <<" ">>, FALSE, FALSE),
                SlackUser(<<"a">>, <<>>, FALSE, FALSE),
                SlackUser(<<"a">>, Undefined, FALSE, FALSE),
                SlackUser(<<"a">>, <<"A">>, TRUE, FALSE),
                SlackUser(<<"a">>, <<"A">>, FALSE, TRUE) } }

\* getUserInfo: throws unless the fetch resolves with response.ok and data.ok
getUserInfo(resp) ==
    IF ~resp.net \/ ~resp.httpOk \/ ~resp.ok
    THEN [threw |-> TRUE, user |-> NoUser]
    ELSE [threw |-> FALSE, user |-> resp.user]

(***************************************************************************)
(* UserMapping records and the merge by userId                             *)
(***************************************************************************)
UserMapping(realName, slackTag, userId, addedOn) ==
    [realName |-> realName, slackTag |-> slackTag, userId |-> userId,
     addedOn |-> addedOn]

UserIds(ms) == {ms[k].userId : k \in 1..Len(ms)}

\* Array.prototype.find(m => m.userId === userId): index of the first match, 0 if none
FindIndex(ms, userId) ==
    IF userId \in UserIds(ms)
    THEN CHOOSE k \in 1..Len(ms) :
            /\ ms[k].userId = userId
            /\ \A j \in 1..(k - 1) : ms[j].userId # userId
    ELSE 0

\* existing?.addedOn where existing = ms.find(...)
FoundAddedOn(ms, userId) ==
    IF FindIndex(ms, userId) = 0 THEN NoDate ELSE ms[FindIndex(ms, userId)].addedOn

\* lines 164-172: the addedOn of an emitted record
AddedOnAlwaysToday(existing, userId, day) == day

\* the date of the stored record, and none for a new user
AddedOnOfExisting(existing, userId, day) == FoundAddedOn(existing, userId)

AddedOnFor(existing, userId, day) ==
    IF userId \notin UserIds(existing) THEN day ELSE FoundAddedOn(existing, userId)

\* line 169: `@${userInfo.name}`
SlackTagNoAt(name) == name

SlackTag(name) == <<"@">> \o name

\* lines 161-163: the filters in front of the push
PassesFiltersIgnoringBots(user) ==
    ~user.deleted /\ Truthy(OrElse(user.profile.real_name, <<>>))

PassesFilters(user) ==
    /\ ~user.deleted
    /\ ~user.is_bot
    /\ Truthy(OrElse(user.profile.real_name, <<>>))

\* lines 158-177: the body of the for-of loop for one identifier.
\* acc = [threw, mappings]; an error of getUserInfo is caught at line 175.
ProcessUserRethrows(acc, userId, resp, existing, day) ==
    IF getUserInfo(resp).threw
    THEN [threw |-> TRUE, mappings |-> acc.mappings]
    ELSE IF PassesFilters(getUserInfo(resp).user)
         THEN [threw |-> acc.threw,
               mappings |-> Append(acc.mappings,
                   UserMapping(OrElse(getUserInfo(resp).user.profile.real_name, <<>>),
                               SlackTag(getUserInfo(resp).user.name),
                               userId,
                               AddedOnFor(existing, userId, day)))]
         ELSE acc

\* the loop body with the new mapping put in front of the list
ProcessUserPrepends(acc, userId, resp, existing, day) ==
    IF acc.threw THEN acc
    ELSE IF getUserInfo(resp).threw
    THEN acc
    ELSE IF PassesFilters(getUserInfo(resp).user)
         THEN [threw |-> FALSE,
               mappings |->
                   <<UserMapping(OrElse(getUserInfo(resp).user.profile.real_name, <<>>),
                                 SlackTag(getUserInfo(resp).user.name),
                                 userId,
                                 AddedOnFor(existing, userId, day))>>
                   \o acc.mappings]
         ELSE acc

ProcessUser(acc, userId, resp, existing, day) ==
    IF acc.threw THEN acc
    ELSE IF getUserInfo(resp).threw
    THEN acc
    ELSE IF PassesFilters(getUserInfo(resp).user)
         THEN [threw |-> FALSE,
               mappings |-> Append(acc.mappings,
                   UserMapping(OrElse(getUserInfo(resp).user.profile.real_name, <<>>),
                               SlackTag(getUserInfo(resp).user.name),
                               userId,
                               AddedOnFor(existing, userId, day)))]
         ELSE acc

\* lines 152-178 as a function of the enumeration, the responses, the prior
\* mappings and the day: the loop over the first n identifiers
RECURSIVE LoopUpTo(_, _, _, _, _)
LoopUpTo(n, ids, resps, existing, day) ==
    IF n = 0 THEN [threw |-> FALSE, mappings |-> <<>>]
    ELSE ProcessUser(LoopUpTo(n - 1, ids, resps, existing, day),
                     ids[n], resps[n], existing, day)

\* the output united with the prior mappings it does not replace
ReconcileUnion(ids, resps, existing, day) ==
    [threw |-> LoopUpTo(Len(ids), ids, resps, existing, day).threw,
     mappings |->
        LoopUpTo(Len(ids), ids, resps, existing, day).mappings
        \o SelectSeq(existing,
              LAMBDA m : m.userId \notin
                 UserIds(LoopUpTo(Len(ids), ids, resps, existing, day).mappings))]

\* the output appended to the prior mappings
ReconcileAppend(ids, resps, existing, day) ==
    [threw |-> LoopUpTo(Len(ids), ids, resps, existing, day).threw,
     mappings |->
        existing \o LoopUpTo(Len(ids), ids, resps, existing, day).mappings]

Reconcile(ids, resps, existing, day) == LoopUpTo(Len(ids), ids, resps, existing, day)

\* getChannelMembers not called yet.  sent: the cursor carried by each request
\* that reached conversations.members; got: the responses, in order
EnIdle ==
    [stage |-> "idle", members |-> <<>>, cursor |-> "undefined", sent |-> <<>>,
     got |-> <<>>]

\* no request to /api/mappings answered yet.  was, had: the file when the
\* request arrived; sent: the body of the POST
NoReply ==
    [op |-> "none", status |-> 0, body |-> <<>>, count |-> 0, was |-> "valid",
     had |-> <<>>, sent |-> <<>>, isArray |-> TRUE]

\* the server has started: the file holds the empty array
StIdle == [disk |-> "valid", content |-> <<>>, reply |-> NoReply]

NoToast == [title |-> "", description |-> ""]

NoError == [isError |-> TRUE, message |-> ""]

\* a constructor that checks the token only
SlackServiceThrowsOnToken(token, channelId) == ~token

\* part_005 lines 53-55: the constructor throws unless the token and the
\* channel id are set (TRUE stands for a non-empty string)
SlackServiceThrows(token, channelId) == ~token \/ ~channelId

\* the component after its first render, nothing typed in.  version: "tsx"
\* is src/components/SlackIntegration.tsx (token and channel typed in, no
\* load on mount), "part_003" the component that builds its SlackService
\* and loads /api/mappings on mount.  service: slackService is not null;
\* captured: users as the fetchUsers in flight closed over it; returned,
\* error, before: the outcome of the last fetch and users just before it;
\* clean: no list received so far (loaded or returned) repeats a userId;
\* inflight: the passes started by fetchUsers and not settled yet
UiIdle(version) ==
    [version |-> version, token |-> FALSE, channelId |-> FALSE,
     service |-> FALSE, mount |-> "done",
     users |-> <<>>, loading |-> FALSE, phase |-> "idle", captured |-> <<>>,
     returned |-> <<>>, error |-> NoError, before |-> <<>>, toast |-> NoToast,
     clean |-> TRUE, inflight |-> 0]

\* responses of Slack to the two calls of send-dm.  net: axios resolves
\* (a 2xx status); ok: data.ok; channel: data.channel.id; ts: data.ts
DmResponse(net, ok, channel, ts) ==
    [net |-> net, ok |-> ok, channel |-> channel, ts |-> ts]

NoDmResponse == DmResponse(TRUE, TRUE, "", "")

NoDmReply == [status |-> 0, success |-> FALSE, messageTs |-> "", channel |-> ""]

\* no request to /api/slack/send-dm yet.  sent: the calls made to Slack, in
\* order; got: what sendDirectMessage of the client did with the answer
DmIdle ==
    [stage |-> "idle", userId |-> "", messageText |-> "", sent |-> <<>>,
     open |-> NoDmResponse,
     post |-> NoDmResponse, reply |-> NoDmReply, got |-> "none"]

\* no pass started.  store0: the store before the two passes; saved: the
\* passes in the order of their saves
CcNoPass == [pc |-> "idle", members |-> <<>>, infos |-> <<>>,
             existing |-> <<>>, out |-> <<>>]

CcIdle == [store0 |-> <<>>, file |-> <<>>, today |-> 1,
           pass |-> [p \in {"A", "B"} |-> CcNoPass], saved |-> <<>>]

\* TagMapper.tsx lines 19-21: the component with nothing saved in
\* localStorage.  last, arg: the handler that ran last and the id it was
\* given
TmIdle == [tagPairs |-> <<>>, newFullName |-> <<>>, newSlackTag |-> <<>>,
           last |-> "none", arg |-> ""]

\* no merge applied
MgIdle == [stage |-> "idle", current |-> <<>>, new |-> <<>>, merged |-> <<>>]

\* no record is kept of the pass
TrOff == [on |-> FALSE, store0 |-> <<>>, log |-> <<>>, dropped |-> 0]

\* what was seen of a response: did fetch resolve, response.ok, data.ok (or
\* result.success), and is data.members present
Flags(net, httpOk, ok, has) == [net |-> net, httpOk |-> httpOk, ok |-> ok, has |-> has]

\* a request (dir = "req") or its response (dir = "res"); pos and id are the
\* position and the userId of a users.info lookup
Event(op, dir, pos, id, flags) ==
    [op |-> op, dir |-> dir, pos |-> pos, id |-> id, flags |-> flags]

Request(op, pos, id) == Event(op, "req", pos, id, Flags(TRUE, TRUE, TRUE, TRUE))

Response(op, pos, id, flags) == Event(op, "res", pos, id, flags)

\* the record of the pass after the events evs
Logged(t, evs) == IF t.on THEN [t EXCEPT !.log = @ \o evs] ELSE t

\* the record of a pass that throws while it holds the identifiers held
LoggedThrow(t, evs, held) ==
    IF t.on THEN [t EXCEPT !.log = @ \o evs, !.dropped = Len(held)] ELSE t

(***************************************************************************)
(* SpecReconcile: the loop of mapUserTagsToIds applied to drawn inputs     *)
(* (an enumeration, one users.info response per position, the prior        *)
(* mappings, the day), and applied again with its own output as the prior  *)
(* mappings on a later day.                                                *)
(***************************************************************************)
RcIdle ==
    [stage |-> "idle", members |-> <<>>, infos |-> <<>>, prior |-> <<>>,
     today |-> 1, out1 |-> [threw |-> FALSE, mappings |-> <<>>],
     today2 |-> 1, out2 |-> [threw |-> FALSE, mappings |-> <<>>]]

\* the records of f's users (those with a day), in the order of us
RECURSIVE PriorOf(_, _)
PriorOf(us, f) ==
    IF us = <<>> THEN <<>>
    ELSE IF f[Head(us)] = NoDate THEN PriorOf(Tail(us), f)
    ELSE <<UserMapping(<<"A">>, <<"@", "a">>, Head(us), f[Head(us)])>>
         \o PriorOf(Tail(us), f)

\* prior mapping sets: unique by userId, each record first seen on a past day
PriorSets(day) == { PriorOf(<<"U1", "U2">>, f) : f \in [Users -> 0..day] }

RcInit ==
    /\ \E m \in SeqsUpTo(Users, MaxMembers), d \in Dates :
          \E r \in [1..Len(m) -> UserResponses], p \in PriorSets(d) :
              rc = [stage |-> "in", members |-> m, infos |-> r, prior |-> p,
                    today |-> d, out1 |-> RcIdle.out1, today2 |-> d,
                    out2 |-> RcIdle.out2]
    /\ file = <<>>
    /\ clock = 1
    /\ pc = "idle"
    /\ members = <<>>
    /\ cursor = NoCursor
    /\ existingMappings = <<>>
    /\ today = 1
    /\ idx = 0
    /\ userMappings = <<>>
    /\ firstAddedOn = [u \in Users |-> NoDate]
    /\ en = EnIdle
    /\ tr = TrOff
    /\ st = StIdle
    /\ ui = UiIdle("tsx")
    /\ dm = DmIdle
    /\ mg = MgIdle
    /\ cc = CcIdle
    /\ tm = TmIdle

RcUnchanged ==
    UNCHANGED <<file, clock, pc, members, cursor, existingMappings, today, idx,
                userMappings, firstAddedOn, aside, tr>>

\* first call: reconcile(identifiers, priorMappings)
RcApply ==
    /\ rc.stage = "in"
    /\ rc' = [rc EXCEPT !.stage = "once",
                        !.out1 = Reconcile(rc.members, rc.infos, rc.prior, rc.today)]
    /\ RcUnchanged

\* second call: same enumeration and responses, the first output as priorMappings
RcApplyAgain ==
    /\ rc.stage = "once"
    /\ ~rc.out1.threw
    /\ \E d \in rc.today..MaxDate :
          rc' = [rc EXCEPT !.stage = "twice",
                           !.today2 = d,
                           !.out2 = Reconcile(rc.members, rc.infos,
                                              rc.out1.mappings, d)]
    /\ RcUnchanged

RcNext == RcApply \/ RcApplyAgain

SpecReconcile == RcInit /\ [][RcNext]_vars

(***************************************************************************)
(* Spec: passes of mapUserTagsToIds against the server's mapping store     *)
(***************************************************************************)

\* Responses of the proxy to POST /api/slack/conversations.members.
\* net: does fetch resolve; httpOk: response.ok; ok: data.ok;
\* hasMembers: data.members is present; next_cursor: response_metadata?.next_cursor
MembersResponse(net, httpOk, ok, hasMembers, page, next_cursor) ==
    [net |-> net, httpOk |-> httpOk, ok |-> ok, hasMembers |-> hasMembers,
     members |-> page, next_cursor |-> next_cursor]

Cursors == {NoCursor, "", "c1"}

MembersResponses(room) ==
    { MembersResponse(FALSE, FALSE, FALSE, FALSE, <<>>, NoCursor),
      MembersResponse(TRUE, FALSE, FALSE, FALSE, <<>>, NoCursor),
      MembersResponse(TRUE, TRUE, FALSE, FALSE, <<>>, NoCursor),
      MembersResponse(TRUE, TRUE, TRUE, FALSE, <<>>, NoCursor) }
    \cup
    { MembersResponse(TRUE, TRUE, TRUE, TRUE, page, c) :
        page \in SeqsUpTo(Users, room), c \in Cursors }

\* every cursor the response holds taken for a continuation
TruthyCursorIfPresent(c) == c # NoCursor

\* JavaScript truthiness of the cursor (a string or undefined)
TruthyCursor(c) == c # NoCursor /\ c # ""

\* the checks without the one on data.members
MembersThrowsUnlessNoMembers(resp) == ~resp.net \/ ~resp.httpOk \/ ~resp.ok

\* lines 81-93: the checks on one page's response
MembersThrows(resp) == ~resp.net \/ ~resp.httpOk \/ ~resp.ok \/ ~resp.hasMembers

\* the users.info responses drawn in a pass: a failed lookup, a bot, and two
\* profiles that pass the filters
PassUserResponses ==
    { r \in UserResponses :
        \/ ~r.net
        \/ r.ok /\ r.user.is_bot
        \/ r.ok /\ PassesFilters(r.user) /\ r.user.profile.real_name # <<" ">> }

\* the submitted mappings stored as they are
MergedMappingsAsSubmitted(currentMappings, newMappings) == newMappings

\* the submitted mappings, and after them the file's records they do not replace
MergedMappingsUpsert(currentMappings, newMappings) ==
    [k \in 1..Len(newMappings) |->
        [newMappings[k] EXCEPT !.addedOn =
            IF TruthyDate(FoundAddedOn(currentMappings, newMappings[k].userId))
            THEN FoundAddedOn(currentMappings, newMappings[k].userId)
            ELSE newMappings[k].addedOn]]
    \o SelectSeq(currentMappings, LAMBDA m : m.userId \notin UserIds(newMappings))

\* the file's records that are submitted again, in the file's order, and
\* after them the submitted records the file did not hold
MergedMappingsFileOrder(currentMappings, newMappings) ==
    SelectSeq(currentMappings, LAMBDA m : m.userId \in UserIds(newMappings))
    \o SelectSeq(newMappings, LAMBDA m : m.userId \notin UserIds(currentMappings))

\* the file's record kept whole for a userId the file holds
MergedMappingsKeepsStored(currentMappings, newMappings) ==
    [k \in 1..Len(newMappings) |->
        IF FindIndex(currentMappings, newMappings[k].userId) # 0
        THEN currentMappings[FindIndex(currentMappings, newMappings[k].userId)]
        ELSE newMappings[k]]

\* server.js lines 92-99: the merge of the submitted mappings with the file
MergedMappings(currentMappings, newMappings) ==
    [k \in 1..Len(newMappings) |->
        [newMappings[k] EXCEPT !.addedOn =
            IF TruthyDate(FoundAddedOn(currentMappings, newMappings[k].userId))
            THEN FoundAddedOn(currentMappings, newMappings[k].userId)
            ELSE newMappings[k].addedOn]]

\* history: the addedOn persisted first for each userId
Recorded(first, ms) ==
    [u \in Users |->
        IF first[u] = NoDate /\ u \in UserIds(ms)
        THEN FoundAddedOn(ms, u)
        ELSE first[u]]

Init ==
    /\ file = <<>>
    /\ clock = 1
    /\ pc = "idle"
    /\ members = <<>>
    /\ cursor = NoCursor
    /\ existingMappings = <<>>
    /\ today = 1
    /\ idx = 0
    /\ userMappings = <<>>
    /\ firstAddedOn = [u \in Users |-> NoDate]
    /\ rc = RcIdle
    /\ en = EnIdle
    /\ tr = TrOff
    /\ st = StIdle
    /\ ui = UiIdle("tsx")
    /\ dm = DmIdle
    /\ mg = MgIdle
    /\ cc = CcIdle
    /\ tm = TmIdle

\* a day passes
Tick ==
    /\ clock < MaxDate
    /\ clock' = clock + 1
    /\ UNCHANGED <<file, pc, members, cursor, existingMappings, today, idx,
                   userMappings, firstAddedOn, rc, aside, tr>>

\* mapUserTagsToIds is called: getChannelMembers sends the first page request
StartPass ==
    /\ pc \in {"idle", "done", "failed"}
    /\ pc' = "members"
    /\ members' = <<>>
    /\ cursor' = NoCursor
    /\ existingMappings' = <<>>
    /\ today' = 1
    /\ idx' = 0
    /\ userMappings' = <<>>
    /\ tr' = IF tr.on
             THEN [tr EXCEPT !.store0 = file,
                             !.log = <<Request("members", 0, "")>>,
                             !.dropped = 0]
             ELSE tr
    /\ UNCHANGED <<file, clock, firstAddedOn, rc, aside>>

\* the pass throws: its locals are gone
Thrown ==
    /\ pc' = "failed"
    /\ members' = <<>>
    /\ cursor' = NoCursor
    /\ existingMappings' = <<>>
    /\ today' = 1
    /\ idx' = 0
    /\ userMappings' = <<>>

\* the number of page requests on record
PageRequests(log) ==
    Cardinality({j \in 1..Len(log) : log[j].op = "members" /\ log[j].dir = "req"})

\* a page's response as the pass sees it
MembersSeen(resp) ==
    Response("members", 0, "",
             Flags(resp.net, resp.httpOk, resp.ok, resp.hasMembers))

\* a save requested after the load and after every lookup
SaveEveryTime(ms, i) == Request("mappings.post", 0, "")

\* the request that follows the response to GET /api/mappings, and the one
\* that follows the lookup of position i: the next lookup, or the save
LookupOrSave(ms, i) ==
    IF i <= Len(ms) THEN Request("users.info", i, ms[i])
    ELSE Request("mappings.post", 0, "")

\* getChannelMembers, lines 67-97: one page's response arrives; the loop
\* requests the next page or returns (its cursor is then gone), and
\* mapUserTagsToIds requests the file
MembersArrive ==
    /\ pc = "members"
    /\ \E resp \in MembersResponses(MaxMembers - Len(members)) :
          /\ (tr.on /\ PageRequests(tr.log) >= MaxPages)
                => resp.next_cursor = NoCursor
          /\ IF MembersThrows(resp)
             THEN /\ Thrown
                  /\ tr' = LoggedThrow(tr, <<MembersSeen(resp)>>, members)
             ELSE /\ members' = members \o resp.members
                  /\ cursor' = IF TruthyCursor(resp.next_cursor)
                               THEN resp.next_cursor ELSE NoCursor
                  /\ pc' = IF TruthyCursor(resp.next_cursor)
                           THEN "members" ELSE "stored"
                  /\ UNCHANGED <<existingMappings, today, idx, userMappings>>
                  /\ tr' = Logged(tr,
                        <<MembersSeen(resp),
                          IF TruthyCursor(resp.next_cursor)
                          THEN Request("members", 0, "")
                          ELSE Request("mappings.get", 0, "")>>)
    /\ UNCHANGED <<file, clock, firstAddedOn, rc, aside>>

\* the for-of loop starts (or is skipped for an empty enumeration)
LoopEntry(ms) == IF Len(ms) = 0 THEN "store" ELSE "userinfo"

\* getStoredMappings, lines 251-264, answered by GET /api/mappings, and
\* lines 154-157: the day is read and the first users.info request is sent
StoredArrive ==
    /\ pc = "stored"
    /\ \E served \in BOOLEAN :
          /\ existingMappings' = IF served THEN file ELSE <<>>
          /\ tr' = Logged(tr,
                <<Response("mappings.get", 0, "",
                           Flags(served, served, served, served)),
                  LookupOrSave(members, 1)>>)
    /\ today' = clock
    /\ idx' = IF Len(members) = 0 THEN 0 ELSE 1
    /\ pc' = LoopEntry(members)
    /\ UNCHANGED <<file, clock, members, cursor, userMappings, firstAddedOn, rc, aside>>

\* a lookup's response as the pass sees it
UserSeen(i, userId, resp) ==
    Response("users.info", i, userId,
             Flags(resp.net, resp.httpOk, resp.ok, TRUE))

\* the same position looked up again after a failure
NextPositionRetry(i, threw) == IF threw THEN i ELSE i + 1

\* line 157: the for-of loop moves to the next identifier, whatever became
\* of the lookup
NextPosition(i, threw) == i + 1

\* lines 157-178: a users.info response arrives and one identifier is handled
UserInfoArrive ==
    /\ pc = "userinfo"
    /\ \E resp \in PassUserResponses :
          LET acc == ProcessUser([threw |-> FALSE, mappings |-> userMappings],
                                 members[idx], resp, existingMappings, today)
          IN  IF acc.threw
              THEN /\ Thrown
                   /\ tr' = LoggedThrow(tr, <<UserSeen(idx, members[idx], resp)>>,
                                        members)
              ELSE /\ userMappings' = acc.mappings
                   /\ pc' = IF NextPosition(idx, getUserInfo(resp).threw)
                                <= Len(members)
                            THEN "userinfo" ELSE "store"
                   /\ idx' = IF NextPosition(idx, getUserInfo(resp).threw)
                                 <= Len(members)
                             THEN NextPosition(idx, getUserInfo(resp).threw)
                             ELSE idx
                   /\ UNCHANGED <<members, cursor, existingMappings, today>>
                   /\ tr' = Logged(tr,
                         <<UserSeen(idx, members[idx], resp),
                           LookupOrSave(members,
                               NextPosition(idx, getUserInfo(resp).threw))>>)
    /\ UNCHANGED <<file, clock, firstAddedOn, rc, aside>>

\* storeMappings, lines 226-249, answered by POST /api/mappings
\* (server.js lines 77-107); the pass returns userMappings.  The history
\* firstAddedOn is kept when record is TRUE.
Save(record) ==
    /\ pc = "store"
    /\ file' = MergedMappings(file, userMappings)
    /\ firstAddedOn' = IF record
                       THEN Recorded(firstAddedOn, MergedMappings(file, userMappings))
                       ELSE firstAddedOn
    /\ pc' = "done"
    /\ members' = <<>>
    /\ idx' = 0
    /\ tr' = Logged(tr, <<Response("mappings.post", 0, "",
                                   Flags(TRUE, TRUE, TRUE, TRUE))>>)
    /\ UNCHANGED <<clock, cursor, existingMappings, today, userMappings, rc, aside>>

StoreDone == Save(FALSE)

StoreDoneRecorded == Save(TRUE)

\* the POST fails (no response, or status 500): storeMappings throws
StoreFails ==
    /\ pc = "store"
    /\ Thrown
    /\ tr' = LoggedThrow(tr, <<Response("mappings.post", 0, "",
                                        Flags(FALSE, FALSE, FALSE, FALSE))>>,
                         members)
    /\ UNCHANGED <<file, clock, firstAddedOn, rc, aside>>

Next ==
    \/ Tick
    \/ StartPass
    \/ MembersArrive
    \/ StoredArrive
    \/ UserInfoArrive
    \/ StoreDone
    \/ StoreFails

Spec == Init /\ [][Next]_vars

\* the same passes, with the history of first persisted dates kept
NextHistory ==
    \/ Tick
    \/ StartPass
    \/ MembersArrive
    \/ StoredArrive
    \/ UserInfoArrive
    \/ StoreDoneRecorded
    \/ StoreFails

SpecHistory == Init /\ [][NextHistory]_vars

(***************************************************************************)
(* SpecTrace: the passes with the requests and responses of the pass in    *)
(* flight on record; at most MaxPages page requests per pass               *)
(***************************************************************************)
TraceInit ==
    /\ file = <<>>
    /\ clock = 1
    /\ pc = "idle"
    /\ members = <<>>
    /\ cursor = NoCursor
    /\ existingMappings = <<>>
    /\ today = 1
    /\ idx = 0
    /\ userMappings = <<>>
    /\ firstAddedOn = [u \in Users |-> NoDate]
    /\ rc = RcIdle
    /\ en = EnIdle
    /\ tr = [on |-> TRUE, store0 |-> <<>>, log |-> <<>>, dropped |-> 0]
    /\ st = StIdle
    /\ ui = UiIdle("tsx")
    /\ dm = DmIdle
    /\ mg = MgIdle
    /\ cc = CcIdle
    /\ tm = TmIdle

TraceNext ==
    \/ StartPass
    \/ MembersArrive
    \/ StoredArrive
    \/ UserInfoArrive
    \/ StoreDone
    \/ StoreFails

SpecTrace == TraceInit /\ [][TraceNext]_vars

(***************************************************************************)
(* SpecEnumerate: getChannelMembers alone, with the cursor of every        *)
(* request that reaches conversations.members and every response on record *)
(***************************************************************************)

\* the request sent without its cursor
BodyCursorOmitted(c) == NoCursor

\* part_005 line 77: the cursor of the request body, present when truthy
BodyCursor(c) == IF TruthyCursor(c) THEN c ELSE NoCursor

\* server.js line 124: the proxy forwards the cursor of the body when truthy
ProxyCursor(c) == IF TruthyCursor(c) THEN c ELSE NoCursor

\* the cursor that conversations.members receives for the loop's cursor c
SentCursor(c) == ProxyCursor(BodyCursor(c))

EnCursors == Cursors \cup {"c2"}

\* the responses to a page request: the failures, and the pages that fit the
\* room left; the last page allowed carries no cursor
EnResponses(room, last) ==
    { r \in MembersResponses(room) : ~last \/ r.next_cursor = NoCursor }
    \cup
    { MembersResponse(TRUE, TRUE, TRUE, TRUE, page, "c2") :
        page \in IF last THEN {} ELSE SeqsUpTo(Users, room) }

EnInit ==
    /\ en = EnIdle
    /\ file = <<>>
    /\ clock = 1
    /\ pc = "idle"
    /\ members = <<>>
    /\ cursor = NoCursor
    /\ existingMappings = <<>>
    /\ today = 1
    /\ idx = 0
    /\ userMappings = <<>>
    /\ firstAddedOn = [u \in Users |-> NoDate]
    /\ rc = RcIdle
    /\ tr = TrOff
    /\ st = StIdle
    /\ ui = UiIdle("tsx")
    /\ dm = DmIdle
    /\ mg = MgIdle
    /\ cc = CcIdle
    /\ tm = TmIdle

EnUnchanged ==
    UNCHANGED <<file, clock, pc, members, cursor, existingMappings, today, idx,
                userMappings, firstAddedOn, rc, tr, st, ui, dm, mg, cc, tm>>

\* lines 58-78: getChannelMembers is called and sends the first page request
EnCall ==
    /\ en.stage # "await"
    /\ en' = [stage |-> "await", members |-> <<>>, cursor |-> NoCursor,
              sent |-> <<SentCursor(NoCursor)>>, got |-> <<>>]
    /\ EnUnchanged

\* lines 81-97: a page's response arrives; the loop throws, sends the next
\* page request, or returns the members
EnArrive ==
    /\ en.stage = "await"
    /\ \E resp \in EnResponses(MaxMembers - Len(en.members),
                                Len(en.sent) >= MaxPages) :
          en' = IF MembersThrows(resp)
                THEN [stage |-> "threw", members |-> <<>>, cursor |-> NoCursor,
                      sent |-> en.sent, got |-> Append(en.got, resp)]
                ELSE [stage |-> IF TruthyCursor(resp.next_cursor)
                                THEN "await" ELSE "returned",
                      members |-> en.members \o resp.members,
                      cursor |-> resp.next_cursor,
                      sent |-> IF TruthyCursor(resp.next_cursor)
                               THEN Append(en.sent, SentCursor(resp.next_cursor))
                               ELSE en.sent,
                      got |-> Append(en.got, resp)]
    /\ EnUnchanged

EnNext == EnCall \/ EnArrive

SpecEnumerate == EnInit /\ [][EnNext]_vars

\* every request is answered: fetch resolves or rejects
SpecEnumerateFair == EnInit /\ [][EnNext]_vars /\ WF_vars(EnArrive)

(***************************************************************************)
(* SpecStorage: the server's handlers of /api/mappings over the file       *)
(* user_mappings.json, which may be removed or damaged under the server    *)
(***************************************************************************)

\* the file after initializeMappingsFile, server.js lines 15-37: created when
\* absent, reset when its content does not parse
initializeMappingsFile(d) ==
    IF d.disk = "valid" THEN d ELSE [d EXCEPT !.disk = "valid", !.content = <<>>]

\* server.js lines 58-61 and 79-82: the handlers initialize an absent file only
Ensured(d) == IF d.disk = "absent" THEN initializeMappingsFile(d) ELSE d

\* the records a POST may submit: each user, first seen on the first day or
\* on the last
PostRecords ==
    { UserMapping(<<"A">>, <<"@", "a">>, u, d) : u \in Users, d \in {1, MaxDate} }

\* the count of the records the file did not hold
PostCountOfNew(currentMappings, mergedMappings) ==
    Cardinality({k \in 1..Len(mergedMappings) :
                    mergedMappings[k].userId \notin UserIds(currentMappings)})

\* server.js line 105: the count of the response
PostCount(currentMappings, mergedMappings) == Len(mergedMappings)

Reply(op, status, body, count, d, sent, isArray) ==
    [op |-> op, status |-> status, body |-> body, count |-> count,
     was |-> d.disk, had |-> d.content, sent |-> sent, isArray |-> isArray]

StInit ==
    /\ st = StIdle
    /\ file = <<>>
    /\ clock = 1
    /\ pc = "idle"
    /\ members = <<>>
    /\ cursor = NoCursor
    /\ existingMappings = <<>>
    /\ today = 1
    /\ idx = 0
    /\ userMappings = <<>>
    /\ firstAddedOn = [u \in Users |-> NoDate]
    /\ rc = RcIdle
    /\ en = EnIdle
    /\ tr = TrOff
    /\ ui = UiIdle("tsx")
    /\ dm = DmIdle
    /\ mg = MgIdle
    /\ cc = CcIdle
    /\ tm = TmIdle

StUnchanged ==
    UNCHANGED <<file, clock, pc, members, cursor, existingMappings, today, idx,
                userMappings, firstAddedOn, rc, en, tr, ui, dm, mg, cc, tm>>

\* server.js line 40: the server starts again
SrvStart ==
    /\ st' = [initializeMappingsFile(st) EXCEPT !.reply = NoReply]
    /\ StUnchanged

\* the file is removed under the running server
DiskRemoved ==
    /\ st.disk # "absent"
    /\ st' = [disk |-> "absent", content |-> <<>>, reply |-> NoReply]
    /\ StUnchanged

\* the file's content is damaged under the running server
DiskCorrupted ==
    /\ st.disk # "corrupt"
    /\ st' = [disk |-> "corrupt", content |-> <<>>, reply |-> NoReply]
    /\ StUnchanged

\* GET /api/mappings, server.js lines 56-74
SrvGet ==
    /\ st' = IF Ensured(st).disk = "corrupt"
             THEN [Ensured(st) EXCEPT
                      !.reply = Reply("get", 500, <<>>, 0, st, <<>>, TRUE)]
             ELSE [Ensured(st) EXCEPT
                      !.reply = Reply("get", 200, Ensured(st).content, 0, st,
                                      <<>>, TRUE)]
    /\ StUnchanged

\* POST /api/mappings, server.js lines 77-116, with an array of up to
\* MaxMembers records.  written: writeFileSync returns, or it throws with
\* the file untouched ("refused") or cut short ("torn")
SrvPost ==
    /\ \E sent \in SeqsUpTo(PostRecords, MaxMembers),
          written \in {"written", "refused", "torn"} :
          st' = IF Ensured(st).disk = "corrupt"
                THEN [Ensured(st) EXCEPT
                         !.reply = Reply("post", 500, <<>>, 0, st, sent, TRUE)]
                ELSE IF written = "written"
                THEN [disk |-> "valid",
                      content |-> MergedMappings(Ensured(st).content, sent),
                      reply |-> Reply("post", 200, <<>>,
                                      PostCount(Ensured(st).content,
                                          MergedMappings(Ensured(st).content, sent)),
                                      st, sent, TRUE)]
                ELSE [disk |-> IF written = "torn" THEN "corrupt" ELSE "valid",
                      content |-> IF written = "torn" THEN <<>>
                                  ELSE Ensured(st).content,
                      reply |-> Reply("post", 500, <<>>, 0, st, sent, TRUE)]
    /\ StUnchanged

\* POST /api/mappings with a JSON body that is not an array: newMappings.map
\* (line 92) throws
SrvPostNoArray ==
    /\ st' = [Ensured(st) EXCEPT
                 !.reply = Reply("post", 500, <<>>, 0, st, <<>>, FALSE)]
    /\ StUnchanged

StNext ==
    \/ SrvStart
    \/ DiskRemoved
    \/ DiskCorrupted
    \/ SrvGet
    \/ SrvPost
    \/ SrvPostNoArray

SpecStorage == StInit /\ [][StNext]_vars

(***************************************************************************)
(* SpecUi: the SlackIntegration component, in its two versions, with the   *)
(* outcomes of mapUserTagsToIds and of the load on mount drawn              *)
(***************************************************************************)

\* the mapping sets a pass or the server may hand to the component
UiRecords == { UserMapping(<<"A">>, <<"@", "a">>, u, 1) : u \in Users }

UiErrors ==
    { [isError |-> TRUE, message |-> m] :
        m \in {"Slack API error: channel_not_found",
                "Failed to store mappings on server"} }

\* part_003 lines 76-80, SlackIntegration.tsx lines 54-58: the error toast
ErrorToast(error) ==
    [title |-> "Error",
     description |-> IF error.isError THEN error.message
                     ELSE "Failed to fetch users from Slack"]

\* part_003 lines 59-60: the returned mappings whose userId the closure's
\* users lack
NewMappings(captured, userMappings_) ==
    SelectSeq(userMappings_, LAMBDA m : m.userId \notin UserIds(captured))

\* users after a fetch that succeeds: SlackIntegration.tsx line 40 sets the
\* returned mappings; part_003 lines 63-64 append the new ones
UsersAfterFetch(version, prevUsers, captured, userMappings_) ==
    IF version = "tsx" THEN userMappings_
    ELSE IF Len(NewMappings(captured, userMappings_)) > 0
         THEN prevUsers \o NewMappings(captured, userMappings_)
         ELSE prevUsers

\* the toast after a fetch that succeeds
SuccessToast(version, captured, userMappings_) ==
    IF version = "tsx" \/ Len(NewMappings(captured, userMappings_)) > 0
    THEN [title |-> "Success!", description |-> ""]
    ELSE [title |-> "No new users", description |-> "All users are already in the list."]

\* part_003 lines 24-49: the effect on mount, with the token and the channel
\* id of the environment; when the constructor throws the effect ends
\* there, without a service and without the load
UiMounted(token, channelId) ==
    [UiIdle("part_003") EXCEPT
        !.token = token,
        !.channelId = channelId,
        !.service = ~SlackServiceThrows(token, channelId),
        !.mount = IF SlackServiceThrows(token, channelId) THEN "done" ELSE "pending"]

UiInit ==
    /\ \/ ui = UiIdle("tsx")
       \/ \E token \in BOOLEAN, channelId \in BOOLEAN :
             ui = UiMounted(token, channelId)
    /\ dm = DmIdle
    /\ mg = MgIdle
    /\ cc = CcIdle
    /\ tm = TmIdle
    /\ st = StIdle
    /\ file = <<>>
    /\ clock = 1
    /\ pc = "idle"
    /\ members = <<>>
    /\ cursor = NoCursor
    /\ existingMappings = <<>>
    /\ today = 1
    /\ idx = 0
    /\ userMappings = <<>>
    /\ firstAddedOn = [u \in Users |-> NoDate]
    /\ rc = RcIdle
    /\ en = EnIdle
    /\ tr = TrOff

UiUnchanged ==
    UNCHANGED <<file, clock, pc, members, cursor, existingMappings, today, idx,
                userMappings, firstAddedOn, rc, en, tr, st, dm, mg, cc, tm>>

\* SlackIntegration.tsx: the token and the channel id are typed in or erased
UiEdit ==
    /\ ui.version = "tsx"
    /\ \/ ui' = [ui EXCEPT !.token = ~@]
       \/ ui' = [ui EXCEPT !.channelId = ~@]
    /\ UiUnchanged

\* SlackIntegration.tsx lines 27-34: fetchUsers is called while the token or
\* the channel id is empty
UiFetchUsersInvalid ==
    /\ ui.version = "tsx"
    /\ ~ui.token \/ ~ui.channelId
    /\ ui' = [ui EXCEPT
                 !.toast = [title |-> "Missing information",
                            description |-> "Please enter both a Slack token and channel ID"],
                 !.phase = IF ui.phase = "fetching" THEN "fetching" ELSE "missing",
                 !.before = ui.users]
    /\ UiUnchanged

\* part_003 lines 30-47: the load started on mount completes; ok with a
\* non-empty array sets users, a rejected fetch shows a toast
UiMountLoad ==
    /\ ui.mount = "pending"
    /\ \E net \in BOOLEAN, data \in SeqsUpTo(UiRecords, MaxMembers) :
          ui' = [ui EXCEPT
                    !.mount = "done",
                    !.phase = IF ui.phase = "fetching" THEN "fetching" ELSE "idle",
                    !.users = IF net /\ Len(data) > 0 THEN data ELSE @,
                    !.clean = IF net /\ Len(data) > 0
                              THEN @ /\ Cardinality(UserIds(data)) = Len(data)
                              ELSE @,
                    !.toast = IF net THEN @
                              ELSE [title |-> "Error",
                                    description |-> "Failed to load existing mappings. Please check if the server is running."]]
    /\ UiUnchanged

\* a button that stays enabled while loading
FetchDisabledNotByLoading(u) ==
    IF u.version = "tsx" THEN ~u.token \/ ~u.channelId ELSE ~u.service

\* SlackIntegration.tsx line 171, part_003 line 162: disabled of the fetch
\* button
FetchDisabled(u) ==
    IF u.version = "tsx" THEN u.loading \/ ~u.token \/ ~u.channelId
    ELSE u.loading \/ ~u.service

\* the fetch button is clicked: fetchUsers sets loading and starts a pass
UiClick ==
    /\ ~FetchDisabled(ui)
    /\ ui.inflight < MaxInFlight
    /\ ui' = [ui EXCEPT !.loading = TRUE, !.phase = "fetching",
                        !.captured = ui.users, !.inflight = @ + 1]
    /\ UiUnchanged

\* mapUserTagsToIds resolves: part_003 lines 56-74, SlackIntegration.tsx
\* lines 39-51, and finally
UiFetchResolves ==
    /\ ui.inflight > 0
    /\ \E out \in SeqsUpTo(UiRecords, MaxMembers) :
          ui' = [ui EXCEPT
                    !.users = UsersAfterFetch(ui.version, ui.users, ui.captured, out),
                    !.toast = SuccessToast(ui.version, ui.captured, out),
                    !.loading = FALSE,
                    !.inflight = @ - 1,
                    !.phase = "ok",
                    !.returned = out,
                    !.clean = @ /\ Cardinality(UserIds(out)) = Len(out),
                    !.error = NoError,
                    !.before = ui.users]
    /\ UiUnchanged

\* mapUserTagsToIds rejects: the catch and finally of fetchUsers
UiFetchRejects ==
    /\ ui.inflight > 0
    /\ \E error \in UiErrors :
          ui' = [ui EXCEPT
                    !.toast = ErrorToast(error),
                    !.loading = FALSE,
                    !.inflight = @ - 1,
                    !.phase = "failed",
                    !.returned = <<>>,
                    !.error = error,
                    !.before = ui.users]
    /\ UiUnchanged

UiNext ==
    \/ UiEdit
    \/ UiFetchUsersInvalid
    \/ UiMountLoad
    \/ UiClick
    \/ UiFetchResolves
    \/ UiFetchRejects

SpecUi == UiInit /\ [][UiNext]_vars

(***************************************************************************)
(* SpecDm: POST /api/slack/send-dm and sendDirectMessage of the client     *)
(***************************************************************************)

\* a call to Slack: api is the method, target the user (conversations.open)
\* or the channel (chat.postMessage), text the text of the message
DmCall(api, target, text) == [api |-> api, target |-> target, text |-> text]

\* the responses to conversations.open: no 2xx answer, ok = false, ok
\* without a channel, ok with a channel
DmOpenResponses ==
    { DmResponse(FALSE, FALSE, "", ""), DmResponse(TRUE, FALSE, "", ""),
      DmResponse(TRUE, TRUE, "", "") }
    \cup { DmResponse(TRUE, TRUE, c, "") : c \in {"D1", "D2", "D3"} }

\* the responses to chat.postMessage
DmPostResponses ==
    { DmResponse(FALSE, FALSE, "", ""), DmResponse(TRUE, FALSE, "", "") }
    \cup { DmResponse(TRUE, TRUE, "", ts) : ts \in {"17.1", "17.2"} }

\* the open call fails only when no answer comes
DmOpenThrowsOnTransport(resp) == ~resp.net

\* server.js lines 164-178: axios rejects, data.ok is false, or
\* data.channel.id cannot be read
DmOpenThrows(resp) == ~resp.net \/ ~resp.ok \/ resp.channel = ""

\* server.js lines 181-195: axios rejects or data.ok is false
DmPostThrows(resp) == ~resp.net \/ ~resp.ok

\* server.js lines 203-207: the answer of the catch
DmFailure == [status |-> 500, success |-> FALSE, messageTs |-> "", channel |-> ""]

DmInit ==
    /\ dm = DmIdle
    /\ mg = MgIdle
    /\ cc = CcIdle
    /\ tm = TmIdle
    /\ file = <<>>
    /\ clock = 1
    /\ pc = "idle"
    /\ members = <<>>
    /\ cursor = NoCursor
    /\ existingMappings = <<>>
    /\ today = 1
    /\ idx = 0
    /\ userMappings = <<>>
    /\ firstAddedOn = [u \in Users |-> NoDate]
    /\ rc = RcIdle
    /\ en = EnIdle
    /\ tr = TrOff
    /\ st = StIdle
    /\ ui = UiIdle("tsx")

DmUnchanged ==
    UNCHANGED <<file, clock, pc, members, cursor, existingMappings, today, idx,
                userMappings, firstAddedOn, rc, en, tr, st, ui, mg, cc, tm>>

\* part_005 lines 195-205 and server.js lines 158-172: the client posts to
\* send-dm and the server calls conversations.open for the user
DmSend ==
    /\ dm.stage \in {"idle", "settled"}
    /\ \E userId \in Users, messageText \in {"hello", "welcome"} :
          dm' = [DmIdle EXCEPT !.stage = "open", !.userId = userId,
                               !.messageText = messageText,
                               !.sent = <<DmCall("conversations.open", userId, "")>>]
    /\ DmUnchanged

\* server.js lines 174-190: the answer to conversations.open arrives; the
\* server throws, or calls chat.postMessage for the channel opened
DmOpenArrives ==
    /\ dm.stage = "open"
    /\ \E resp \in DmOpenResponses :
          dm' = IF DmOpenThrows(resp)
                THEN [dm EXCEPT !.stage = "answered", !.open = resp,
                                !.reply = DmFailure]
                ELSE [dm EXCEPT !.stage = "post", !.open = resp,
                                !.sent = Append(@, DmCall("chat.postMessage",
                                                           resp.channel,
                                                           dm.messageText))]
    /\ DmUnchanged

\* server.js lines 193-207: the answer to chat.postMessage arrives
DmPostArrives ==
    /\ dm.stage = "post"
    /\ \E resp \in DmPostResponses :
          dm' = [dm EXCEPT
                    !.stage = "answered",
                    !.post = resp,
                    !.reply = IF DmPostThrows(resp) THEN DmFailure
                              ELSE [status |-> 200, success |-> TRUE,
                                    messageTs |-> resp.ts,
                                    channel |-> dm.open.channel]]
    /\ DmUnchanged

\* part_005 lines 207-223: the client gets the answer (or none: fetch
\* rejects); it throws unless response.ok, else returns the body
DmSettles ==
    /\ dm.stage = "answered"
    /\ \E net \in BOOLEAN :
          dm' = [dm EXCEPT !.stage = "settled",
                           !.got = IF net /\ dm.reply.status = 200
                                   THEN "returned" ELSE "threw"]
    /\ DmUnchanged

DmNext ==
    \/ DmSend
    \/ DmOpenArrives
    \/ DmPostArrives
    \/ DmSettles

SpecDm == DmInit /\ [][DmNext]_vars

(***************************************************************************)
(* SpecMerge: the merge of POST /api/mappings applied to a drawn file and  *)
(* a drawn body, records without addedOn included                          *)
(***************************************************************************)

\* the records of the file and the records submitted: they differ in name
\* and tag; addedOn is absent, the first day or the last
MgStored ==
    { UserMapping(<<"A">>, <<"@", "a">>, u, d) :
        u \in Users, d \in {NoDate, 1, MaxDate} }

MgSubmitted ==
    { UserMapping(<<"B", "b">>, <<"@", "b">>, u, d) :
        u \in Users, d \in {NoDate, 1, MaxDate} }

MgInit ==
    /\ \E c \in SeqsUpTo(MgStored, MaxMembers) :
          \E n \in SeqsUpTo(MgSubmitted, MaxMembers) :
              mg = [stage |-> "in", current |-> c, new |-> n, merged |-> <<>>]
    /\ file = <<>>
    /\ clock = 1
    /\ pc = "idle"
    /\ members = <<>>
    /\ cursor = NoCursor
    /\ existingMappings = <<>>
    /\ today = 1
    /\ idx = 0
    /\ userMappings = <<>>
    /\ firstAddedOn = [u \in Users |-> NoDate]
    /\ rc = RcIdle
    /\ en = EnIdle
    /\ tr = TrOff
    /\ st = StIdle
    /\ ui = UiIdle("tsx")
    /\ dm = DmIdle
    /\ cc = CcIdle
    /\ tm = TmIdle

MgUnchanged ==
    UNCHANGED <<file, clock, pc, members, cursor, existingMappings, today, idx,
                userMappings, firstAddedOn, rc, en, tr, st, ui, dm, cc, tm>>

\* server.js lines 91-99
MgApply ==
    /\ mg.stage = "in"
    /\ mg' = [mg EXCEPT !.stage = "merged",
                        !.merged = MergedMappings(mg.current, mg.new)]
    /\ MgUnchanged

MgNext == MgApply

SpecMerge == MgInit /\ [][MgNext]_vars

(***************************************************************************)
(* SpecConcurrent: two passes of mapUserTagsToIds on the same day against  *)
(* one store, their loads and saves interleaved                            *)
(***************************************************************************)
Passes == {"A", "B"}

\* users.info answers of the two passes: a lookup that fails, one that
\* resolves
CcUserResponses ==
    { UserResponse(TRUE, TRUE, FALSE, NoUser),
      UserResponse(TRUE, TRUE, TRUE, SlackUser(<<"a">>, <<"A">>, FALSE, FALSE)) }

\* the enumeration of a pass with the users.info answer of each position
CcInputs ==
    { [members |-> m, infos |-> r] :
        m \in SeqsUpTo(Users, MaxMembers), r \in SeqsUpTo(CcUserResponses, MaxMembers) }

CcInit ==
    /\ \E s0 \in PriorSets(1), a \in {i \in CcInputs : Len(i.members) = Len(i.infos)},
          b \in {i \in CcInputs : Len(i.members) = Len(i.infos)} :
              cc = [store0 |-> s0, file |-> s0, today |-> MaxDate,
                    pass |-> [p \in Passes |->
                        [pc |-> "start",
                         members |-> IF p = "A" THEN a.members ELSE b.members,
                         infos |-> IF p = "A" THEN a.infos ELSE b.infos,
                         existing |-> <<>>, out |-> <<>>]],
                    saved |-> <<>>]
    /\ file = <<>>
    /\ clock = 1
    /\ pc = "idle"
    /\ members = <<>>
    /\ cursor = NoCursor
    /\ existingMappings = <<>>
    /\ today = 1
    /\ idx = 0
    /\ userMappings = <<>>
    /\ firstAddedOn = [u \in Users |-> NoDate]
    /\ rc = RcIdle
    /\ en = EnIdle
    /\ tr = TrOff
    /\ st = StIdle
    /\ ui = UiIdle("tsx")
    /\ dm = DmIdle
    /\ mg = MgIdle
    /\ tm = TmIdle

CcUnchanged ==
    UNCHANGED <<file, clock, pc, members, cursor, existingMappings, today, idx,
                userMappings, firstAddedOn, rc, en, tr, st, ui, dm, mg, tm>>

\* part_005 line 153: GET /api/mappings answers with the file as it is now
CcLoad(p) ==
    /\ cc.pass[p].pc = "start"
    /\ cc' = [cc EXCEPT !.pass[p].pc = "loaded",
                        !.pass[p].existing = cc.file]
    /\ CcUnchanged

\* part_005 lines 157-178: the loop over the enumeration
CcResolve(p) ==
    /\ cc.pass[p].pc = "loaded"
    /\ cc' = [cc EXCEPT !.pass[p].pc = "resolved",
                        !.pass[p].out =
                            Reconcile(cc.pass[p].members, cc.pass[p].infos,
                                      cc.pass[p].existing, cc.today).mappings]
    /\ CcUnchanged

\* a store that appends what is submitted to what it holds
CcStoredAppends(current, submitted) == current \o submitted

\* server.js lines 86-102: the file after POST /api/mappings
CcStored(current, submitted) == MergedMappings(current, submitted)

\* part_005 line 181: POST /api/mappings is answered
CcSave(p) ==
    /\ cc.pass[p].pc = "resolved"
    /\ cc' = [cc EXCEPT !.pass[p].pc = "saved",
                        !.file = CcStored(cc.file, cc.pass[p].out),
                        !.saved = Append(@, p)]
    /\ CcUnchanged

CcNext == \E p \in Passes : CcLoad(p) \/ CcResolve(p) \/ CcSave(p)

SpecConcurrent == CcInit /\ [][CcNext]_vars

(***************************************************************************)
(* SpecTagMapper: the manual tag editor                                    *)
(***************************************************************************)
\* String.prototype.trim: white space removed at both ends
RECURSIVE TrimStart(_)
TrimStart(str) ==
    IF str # <<>> /\ Head(str) = " " THEN TrimStart(Tail(str)) ELSE str

RECURSIVE TrimEnd(_)
TrimEnd(str) ==
    IF str # <<>> /\ str[Len(str)] = " "
    THEN TrimEnd(SubSeq(str, 1, Len(str) - 1)) ELSE str

Trim(str) == TrimEnd(TrimStart(str))

StartsWithAt(str) == str # <<>> /\ Head(str) = "@"

\* what is typed into the two fields
TmNames == {<<>>, <<" ">>, <<"A">>, <<" ", "A", " ">>}

TmTags == {<<>>, <<" ">>, <<"a">>, <<"@", "a">>, <<" ", "@">>}

\* the values of generateId
TmIds == {"i1", "i2"}

TagPair(id, fullName, slackTag) ==
    [id |-> id, fullName |-> fullName, slackTag |-> slackTag]

TmInit ==
    /\ tm = TmIdle
    /\ file = <<>>
    /\ clock = 1
    /\ pc = "idle"
    /\ members = <<>>
    /\ cursor = NoCursor
    /\ existingMappings = <<>>
    /\ today = 1
    /\ idx = 0
    /\ userMappings = <<>>
    /\ firstAddedOn = [u \in Users |-> NoDate]
    /\ rc = RcIdle
    /\ en = EnIdle
    /\ tr = TrOff
    /\ st = StIdle
    /\ ui = UiIdle("tsx")
    /\ dm = DmIdle
    /\ mg = MgIdle
    /\ cc = CcIdle

TmUnchanged ==
    UNCHANGED <<file, clock, pc, members, cursor, existingMappings, today, idx,
                userMappings, firstAddedOn, rc, en, tr, st, ui, dm, mg, cc>>

\* onChange of the full-name field
TmTypeName ==
    /\ \E v \in TmNames :
          tm' = [tm EXCEPT !.newFullName = v, !.last = "typed", !.arg = ""]
    /\ TmUnchanged

\* onChange of the Slack-tag field
TmTypeTag ==
    /\ \E v \in TmTags :
          tm' = [tm EXCEPT !.newSlackTag = v, !.last = "typed", !.arg = ""]
    /\ TmUnchanged

\* a check of the full name only
TmRejectsNameOnly(newFullName, newSlackTag) == ~Truthy(Trim(newFullName))

\* TagMapper.tsx line 43: the pair is refused
TmRejects(newFullName, newSlackTag) ==
    ~Truthy(Trim(newFullName)) \/ ~Truthy(Trim(newSlackTag))

\* TagMapper.tsx line 52
FormattedSlackTag(newSlackTag) ==
    IF StartsWithAt(newSlackTag) THEN newSlackTag ELSE <<"@">> \o newSlackTag

\* TagMapper.tsx lines 42-68
handleAddPair ==
    /\ IF TmRejects(tm.newFullName, tm.newSlackTag)
       THEN tm' = [tm EXCEPT !.last = "rejected", !.arg = ""]
       ELSE /\ Len(tm.tagPairs) < MaxPairs
            /\ \E id \in TmIds :
              tm' = [tm EXCEPT
                        !.tagPairs =
                            Append(@, TagPair(id, Trim(tm.newFullName),
                                              FormattedSlackTag(tm.newSlackTag))),
                        !.newFullName = <<>>,
                        !.newSlackTag = <<>>,
                        !.last = "added",
                        !.arg = id]
    /\ TmUnchanged

\* TagMapper.tsx lines 70-76
handleRemovePair ==
    /\ \E id \in TmIds :
          tm' = [tm EXCEPT
                    !.tagPairs = SelectSeq(@, LAMBDA pair : pair.id # id),
                    !.last = "removed",
                    !.arg = id]
    /\ TmUnchanged

TmNext == TmTypeName \/ TmTypeTag \/ handleAddPair \/ handleRemovePair

SpecTagMapper == TmInit /\ [][TmNext]_vars

(***************************************************************************)
(* Claims about reconcile (SpecReconcile)                                  *)
(***************************************************************************)
RcApplied == rc.stage \in {"once", "twice"}

\* the positions of identifier u in the drawn enumeration
RcPositions(u) == {k \in 1..Len(rc.members) : rc.members[k] = u}

\* the lookup resolved a profile
Resolved(resp) == resp.net /\ resp.httpOk /\ resp.ok

\* the profile is one the filters reject: a bot, a removed account, an empty name
Filtered(resp) ==
    Resolved(resp) /\ (resp.user.is_bot \/ resp.user.deleted
                       \/ resp.user.profile.real_name = <<>>)

\* the profile resolves and passes the filters
Emits(resp) ==
    /\ Resolved(resp)
    /\ ~resp.user.is_bot
    /\ ~resp.user.deleted
    /\ resp.user.profile.real_name # <<>>
    /\ resp.user.profile.real_name # Undefined

\* the number of positions up to k whose profile resolves and passes
RcRank(k) == Cardinality({j \in 1..k : Emits(rc.infos[j])})

\* a name made of whitespace only (the empty name included)
IsBlank(name) == name # Undefined /\ \A k \in 1..Len(name) : name[k] = " "

\* C1: an identifier of priorMappings that the new enumeration lacks is
\* absent from the returned mapping set (replacement, not union).
C1_Replacement ==
    RcApplied =>
        \A x \in UserIds(rc.prior) :
            x \notin Range(rc.members) => x \notin UserIds(rc.out1.mappings)

C1_Witness ==
    /\ rc.stage = "once"
    /\ \E x \in UserIds(rc.prior) : x \notin Range(rc.members)
    /\ rc.out1.mappings # <<>>

\* C2: the record emitted for a position whose profile resolves and passes
\* the filters has userId = the identifier, realName = the resolved name,
\* slackTag = "@" + handle, and addedOn = the prior record's addedOn when
\* priorMappings holds the userId, else the current date.
C2_EmittedRecord ==
    RcApplied =>
        \A k \in 1..Len(rc.members) :
            Emits(rc.infos[k]) =>
                /\ RcRank(k) <= Len(rc.out1.mappings)
                /\ rc.out1.mappings[RcRank(k)] =
                     [userId |-> rc.members[k],
                      realName |-> rc.infos[k].user.profile.real_name,
                      slackTag |-> <<"@">> \o rc.infos[k].user.name,
                      addedOn |->
                         IF \E p \in Range(rc.prior) : p.userId = rc.members[k]
                         THEN (CHOOSE p \in Range(rc.prior) :
                                  p.userId = rc.members[k]).addedOn
                         ELSE rc.today]

C2_Witness ==
    /\ rc.stage = "once"
    /\ Len(rc.members) = 2
    /\ Emits(rc.infos[1]) /\ Emits(rc.infos[2])
    /\ rc.members[1] \in UserIds(rc.prior)
    /\ rc.members[2] \notin UserIds(rc.prior)
    /\ \E p \in Range(rc.prior) : p.addedOn < rc.today

\* C4: with the first output fed back as priorMappings and the same
\* enumeration and profile results, every identifier of both outputs has the
\* same addedOn in both, also when the date of the second call differs.
C4_AddedOnIdempotent ==
    rc.stage = "twice" =>
        \A j \in 1..Len(rc.out1.mappings), k \in 1..Len(rc.out2.mappings) :
            rc.out1.mappings[j].userId = rc.out2.mappings[k].userId
                => rc.out1.mappings[j].addedOn = rc.out2.mappings[k].addedOn

C4_Witness ==
    /\ rc.stage = "twice"
    /\ rc.today2 # rc.today
    /\ rc.out2.mappings # <<>>
    /\ \E k \in 1..Len(rc.out1.mappings) :
          /\ rc.out1.mappings[k].userId \notin UserIds(rc.prior)
          /\ rc.out1.mappings[k].userId \in UserIds(rc.out2.mappings)

\* C6: for an identifier sequence without duplicates the output holds at
\* most one UserMapping per identifier.
C6_OutputUnique ==
    (RcApplied /\ \A j, k \in 1..Len(rc.members) :
                      rc.members[j] = rc.members[k] => j = k)
        => \A j, k \in 1..Len(rc.out1.mappings) :
              rc.out1.mappings[j].userId = rc.out1.mappings[k].userId => j = k

C6_Witness ==
    /\ rc.stage = "once"
    /\ Len(rc.members) = 2
    /\ rc.members[1] # rc.members[2]
    /\ Len(rc.out1.mappings) = 2
    /\ rc.prior # <<>>

\* C8: an identifier whose resolved profile is a bot, is removed or has an
\* empty real name has no UserMapping in the output, at any position and
\* whether or not priorMappings holds it.
C8_Filtering ==
    RcApplied =>
        \A u \in Range(rc.members) :
            (\A k \in RcPositions(u) : Filtered(rc.infos[k]))
                => u \notin UserIds(rc.out1.mappings)

C8_Witness ==
    /\ rc.stage = "once"
    /\ Len(rc.members) = 2
    /\ rc.members[1] # rc.members[2]
    /\ Emits(rc.infos[1])
    /\ Filtered(rc.infos[2]) /\ rc.infos[2].user.is_bot
    /\ rc.members[2] \in UserIds(rc.prior)
    /\ Len(rc.out1.mappings) = 1

\* C9 (as claimed): an identifier whose resolved name is blank (whitespace
\* only, or empty) has no UserMapping in the output.
C9_BlankSkipped ==
    RcApplied =>
        \A u \in Range(rc.members) :
            (\A k \in RcPositions(u) :
                Resolved(rc.infos[k]) /\ IsBlank(rc.infos[k].user.profile.real_name))
                => u \notin UserIds(rc.out1.mappings)

\* C10: when profile resolution fails for some identifiers, reconcile does
\* not fail; the output holds a mapping for every other identifier that
\* resolves and passes the filters and none for the failed identifiers.
C10_PartialFailure ==
    (RcApplied /\ \E k \in 1..Len(rc.members) : ~Resolved(rc.infos[k]))
        => /\ ~rc.out1.threw
           /\ \A k \in 1..Len(rc.members) :
                 Emits(rc.infos[k]) => rc.members[k] \in UserIds(rc.out1.mappings)
           /\ \A u \in Range(rc.members) :
                 (\A k \in RcPositions(u) : ~Resolved(rc.infos[k]))
                     => u \notin UserIds(rc.out1.mappings)

C10_Witness ==
    /\ rc.stage = "once"
    /\ Len(rc.members) = 2
    /\ rc.members[1] # rc.members[2]
    /\ ~Resolved(rc.infos[1])
    /\ Emits(rc.infos[2])
    /\ ~rc.out1.threw
    /\ UserIds(rc.out1.mappings) = {rc.members[2]}

\* the identifiers of the first n positions whose profile resolves and
\* passes the filters, in the order of the enumeration
RECURSIVE RcEmittedIds(_)
RcEmittedIds(n) ==
    IF n = 0 THEN <<>>
    ELSE IF Emits(rc.infos[n]) THEN Append(RcEmittedIds(n - 1), rc.members[n])
         ELSE RcEmittedIds(n - 1)

\* the userIds of a list of mappings, in the order of the list
IdsInOrder(ms) == [k \in 1..Len(ms) |-> ms[k].userId]

\* C11: the userIds of reconcile's output, read in order, are the
\* subsequence of the enumerated identifiers that resolved and passed the
\* filters; names, dates and the order of the prior mappings change nothing.
C11_OutputOrder ==
    RcApplied => IdsInOrder(rc.out1.mappings) = RcEmittedIds(Len(rc.members))

C11_Witness ==
    /\ rc.stage = "once"
    /\ rc.members = <<"U2", "U1">>
    /\ Emits(rc.infos[1]) /\ Emits(rc.infos[2])
    /\ rc.infos[1].user.profile.real_name = <<"B", "b">>
    /\ rc.infos[2].user.profile.real_name = <<"A">>
    /\ IdsInOrder(rc.prior) = <<"U1", "U2">>
    /\ rc.prior[1].addedOn < rc.prior[2].addedOn
    /\ IdsInOrder(rc.out1.mappings) = <<"U2", "U1">>

(***************************************************************************)
(* Claims about the enumeration (SpecEnumerate)                            *)
(***************************************************************************)
\* a cursor that asks for another page: present and not the empty string
NonEmptyCursor(c) == c # "undefined" /\ c # ""

\* the pages of the first n responses, one after the other
RECURSIVE EnPages(_)
EnPages(n) == IF n = 0 THEN <<>> ELSE EnPages(n - 1) \o en.got[n].members

\* C12: when the listing endpoint returns a cursor on each of the first k
\* pages and none on page k+1, enumerate issues exactly k+1 requests; the
\* first carries no cursor, each later one the cursor of the response just
\* before it, and the result is the pages' identifiers in request order.
C12_Pagination ==
    /\ \A j \in 1..Len(en.sent) :
          en.sent[j] = IF j = 1 THEN "undefined" ELSE en.got[j - 1].next_cursor
    /\ en.stage = "returned" =>
          /\ Len(en.sent) = Len(en.got)
          /\ Len(en.sent) =
                1 + Cardinality({j \in 1..Len(en.got) :
                                    NonEmptyCursor(en.got[j].next_cursor)})
          /\ \A j \in 1..Len(en.got) :
                NonEmptyCursor(en.got[j].next_cursor) <=> j < Len(en.got)
          /\ en.members = EnPages(Len(en.got))

C12_Witness ==
    /\ en.stage = "returned"
    /\ en.sent = <<"undefined", "c2", "c1">>
    /\ Len(en.got) = 3
    /\ en.got[1].members = <<"U2">>
    /\ en.got[2].members = <<>>
    /\ en.got[3].members = <<"U1">>
    /\ en.got[3].next_cursor = "undefined"
    /\ en.members = <<"U2", "U1">>

\* C19: getChannelMembers requests another page exactly when the last
\* response carried a non-empty cursor and returns as soon as a response
\* carries none (absent or the empty string); when the endpoint returns a
\* non-empty cursor finitely often (at most MaxPages - 1 times) and every
\* request is answered, the enumeration ends.
C19_Termination ==
    /\ [][(en.stage = "await" /\ en' # en /\ en'.stage # "threw") =>
             /\ NonEmptyCursor(en'.got[Len(en'.got)].next_cursor) =>
                   /\ en'.stage = "await"
                   /\ Len(en'.sent) = Len(en.sent) + 1
             /\ ~NonEmptyCursor(en'.got[Len(en'.got)].next_cursor) =>
                   /\ en'.stage = "returned"
                   /\ en'.sent = en.sent]_vars
    /\ (en.stage = "await") ~> (en.stage \in {"returned", "threw"})

C19_Witness ==
    /\ en.stage = "returned"
    /\ Len(en.sent) = 2
    /\ en.got[1].next_cursor = "c1"
    /\ en.got[2].next_cursor = ""
    /\ en.members = <<"U1", "U2">>

(***************************************************************************)
(* Claims about the requests of a pass (SpecTrace)                         *)
(***************************************************************************)
\* the event is the response to a page request that failed: no response, a
\* status that is not OK, ok = false, or no members field
PageFails(e) ==
    /\ e.op = "members"
    /\ e.dir = "res"
    /\ ~e.flags.net \/ ~e.flags.httpOk \/ ~e.flags.ok \/ ~e.flags.has

\* C13: when a page request fails (transport failure, non-OK status,
\* ok = false, or a response without members), the enumeration fails as a
\* whole: nothing is requested after it, the identifiers of earlier pages
\* are not returned, the pass rejects without a lookup, without a read of
\* the store and without a write to it.
C13_EnumerationErrorsTerminal ==
    \A j \in 1..Len(tr.log) :
        PageFails(tr.log[j]) =>
            /\ j = Len(tr.log)
            /\ pc = "failed"
            /\ members = <<>>
            /\ userMappings = <<>>
            /\ \A i \in 1..Len(tr.log) : tr.log[i].op = "members"
            /\ file = tr.store0

C13_Witness ==
    /\ pc = "failed"
    /\ Len(tr.log) = 4
    /\ ~PageFails(tr.log[2])
    /\ tr.dropped = 1
    /\ PageFails(tr.log[4])
    /\ tr.log[4].flags.ok
    /\ ~tr.log[4].flags.has
    /\ Len(file) = 2

\* the event is the response to a read or a write of the persisted mappings
\* that failed
PersistenceFails(e) ==
    /\ e.op \in {"mappings.get", "mappings.post"}
    /\ e.dir = "res"
    /\ ~e.flags.net \/ ~e.flags.httpOk \/ ~e.flags.ok

\* C14 (as claimed): when the read of the persisted mappings or their write
\* fails, the pass fails; it does not go on to return a mapping set.
C14_PersistenceFatal ==
    \A j \in 1..Len(tr.log) : PersistenceFails(tr.log[j]) => pc = "failed"

\* the places of the lookup requests, and of the lookup responses, on record
LookupRequests ==
    {j \in 1..Len(tr.log) : tr.log[j].op = "users.info" /\ tr.log[j].dir = "req"}

LookupResponses ==
    {j \in 1..Len(tr.log) : tr.log[j].op = "users.info" /\ tr.log[j].dir = "res"}

\* C20: within a pass the lookups are issued one at a time in enumeration
\* order: the k-th lookup is for position k, it is answered (with a profile
\* or an error) before anything else is requested, at most one lookup is in
\* flight, and a pass that reaches the save has issued exactly one lookup
\* per position, failed lookups included.
C20_SequentialLookups ==
    /\ Cardinality(LookupRequests) - Cardinality(LookupResponses) \in {0, 1}
    /\ \A j \in LookupRequests :
          /\ tr.log[j].pos = Cardinality({i \in LookupRequests : i <= j})
          /\ pc \in {"userinfo", "store"} => tr.log[j].id = members[tr.log[j].pos]
          /\ j < Len(tr.log) =>
                /\ tr.log[j + 1].op = "users.info"
                /\ tr.log[j + 1].dir = "res"
                /\ tr.log[j + 1].pos = tr.log[j].pos
    /\ pc = "store" => Cardinality(LookupRequests) = Len(members)

C20_Witness ==
    /\ pc = "store"
    /\ members = <<"U2", "U1">>
    /\ Cardinality(LookupRequests) = 2
    /\ \E j \in LookupResponses : tr.log[j].pos = 1 /\ ~tr.log[j].flags.net
    /\ \E j \in LookupResponses : tr.log[j].pos = 2 /\ tr.log[j].flags.ok
    /\ IdsInOrder(userMappings) = <<"U1">>

\* the places of the requests of operation op on record
RequestsOf(op) ==
    {j \in 1..Len(tr.log) : tr.log[j].op = op /\ tr.log[j].dir = "req"}

\* C21: a pass that completes has loaded the persisted set exactly once and
\* saved exactly once; the load comes before the first lookup and the save
\* after the last; a pass that fails during enumeration requests no save.
C21_ReadOnceWriteOnce ==
    /\ pc = "done" =>
          /\ Cardinality(RequestsOf("mappings.get")) = 1
          /\ Cardinality(RequestsOf("mappings.post")) = 1
          /\ \A g \in RequestsOf("mappings.get"), p \in RequestsOf("mappings.post") :
                /\ g < p
                /\ \A l \in LookupRequests \cup LookupResponses : g < l /\ l < p
    /\ (\E j \in 1..Len(tr.log) : PageFails(tr.log[j]))
          => RequestsOf("mappings.post") = {}

C21_Witness ==
    /\ pc = "done"
    /\ Cardinality(LookupRequests) = 2
    /\ Cardinality(RequestsOf("members")) = 2
    /\ Cardinality(RequestsOf("mappings.get")) = 1
    /\ Cardinality(RequestsOf("mappings.post")) = 1
    /\ Len(file) = 2
    /\ Len(tr.store0) = 1

(***************************************************************************)
(* Claims about the persisted collection (Spec, SpecHistory)               *)
(***************************************************************************)

\* C3 (as claimed): once a userId has been persisted with addedOn = d, every
\* record persisted later for that userId has addedOn = d.
C3_FirstSeenNeverChanges ==
    \A k \in 1..Len(file) : file[k].addedOn = firstAddedOn[file[k].userId]

\* C3 (amended): a save keeps the addedOn of every userId that the persisted
\* collection holds when the save is made.
C3_AddedOnKeptWhileStored ==
    [][\A j \in 1..Len(file), k \in 1..Len(file') :
          file[j].userId = file'[k].userId => file'[k].addedOn = file[j].addedOn]_vars

C3_Witness ==
    /\ pc = "done"
    /\ \E k \in 1..Len(file) :
          /\ file[k].addedOn < today
          /\ file[k].userId \in UserIds(existingMappings)
    /\ \E k \in 1..Len(file) : file[k].addedOn = today

\* C5 (as claimed): a record, once persisted, is retained by every later
\* pass; no pass deletes a record from the persisted collection.
C5_NeverDeleted == [][UserIds(file) \subseteq UserIds(file')]_vars

\* C5 (amended): the save of a pass leaves exactly the records the pass
\* emitted, in order: a record is retained only when the pass emits its
\* userId, it then keeps userId and addedOn and takes realName and slackTag
\* from the pass; every other record is deleted.
C5_RetainedOnlyIfEmitted ==
    [][(pc = "store" /\ pc' = "done") =>
          /\ Len(file') = Len(userMappings)
          /\ \A k \in 1..Len(file') :
                /\ file'[k].userId = userMappings[k].userId
                /\ file'[k].realName = userMappings[k].realName
                /\ file'[k].slackTag = userMappings[k].slackTag
                /\ \A j \in 1..Len(file) :
                      file[j].userId = file'[k].userId
                          => file'[k].addedOn = file[j].addedOn]_vars

C5_Witness ==
    /\ pc = "done"
    /\ \E x \in UserIds(existingMappings) : x \notin UserIds(file)
    /\ \E j \in 1..Len(existingMappings), k \in 1..Len(file) :
          /\ existingMappings[j].userId = file[k].userId
          /\ existingMappings[j].realName # file[k].realName
          /\ existingMappings[j].slackTag # file[k].slackTag
          /\ existingMappings[j].addedOn = file[k].addedOn
          /\ file[k].addedOn < today

\* C7 (as claimed): no two records of the persisted collection have the same
\* userId, whatever pages the listing endpoint returns.
C7_PersistedUnique ==
    \A j, k \in 1..Len(file) : file[j].userId = file[k].userId => j = k

(***************************************************************************)
(* Claims about the server's storage (SpecStorage)                         *)
(***************************************************************************)
\* C15 (as claimed): a load issued while the file is absent or unparseable
\* resets the storage to the empty collection and returns the empty
\* collection, not an error; a load of a valid collection returns it and
\* leaves it unchanged.
C15_LoadTolerates ==
    st.reply.op = "get" =>
        /\ st.reply.status = 200
        /\ st.disk = "valid"
        /\ st.reply.body = st.content
        /\ st.reply.was \in {"absent", "corrupt"} => st.content = <<>>
        /\ st.reply.was = "valid" => st.content = st.reply.had

C17_LastWriteWins ==
    (st.reply.op = "post" /\ st.reply.status = 200) =>
        IdsInOrder(st.content) = IdsInOrder(st.reply.sent)

C17_Witness ==
    /\ st.reply.op = "post"
    /\ st.reply.status = 200
    /\ IdsInOrder(st.reply.had) = <<"U1", "U2">>
    /\ IdsInOrder(st.reply.sent) = <<"U2">>
    /\ IdsInOrder(st.content) = <<"U2">>
    /\ st.content[1].addedOn = st.reply.had[2].addedOn

(***************************************************************************)
(* Claims about the presentation layer (SpecUi)                            *)
(***************************************************************************)
\* C18 (as claimed): after a fetch that succeeds the users list of the
\* component equals the mapping set mapUserTagsToIds returned, records and
\* order; after a fetch that fails the list is unchanged and the message of
\* the error is shown.
C18_ShowsOutputUnmodified ==
    /\ ui.phase = "ok" => ui.users = ui.returned
    /\ ui.phase = "failed" =>
          /\ ui.users = ui.before
          /\ ui.toast = [title |-> "Error", description |-> ui.error.message]

\* C22: when the token or the channel id is absent no request is issued and
\* an error is reported: the constructor of SlackService throws, so the
\* component that builds it on mount has no service, starts no load and no
\* pass; fetchUsers of SlackIntegration.tsx shows an error and returns
\* without starting a pass or changing the users list.
C22_Validation ==
    /\ (ui.version = "part_003" /\ (~ui.token \/ ~ui.channelId)) =>
          /\ ~ui.service
          /\ ui.mount = "done"
          /\ ui.phase = "idle"
          /\ ~ui.loading
          /\ ui.users = <<>>
    /\ ui.phase = "missing" =>
          /\ ~ui.loading
          /\ ui.users = ui.before
          /\ ui.toast.title = "Missing information"

C22_Witness ==
    /\ ui.version = "tsx"
    /\ ui.phase = "missing"
    /\ ui.token
    /\ ~ui.channelId
    /\ Len(ui.users) = 2
    /\ ui.users = ui.before

(***************************************************************************)
(* Claims about direct messages (SpecDm)                                   *)
(***************************************************************************)
\* C23: chat.postMessage is requested only after conversations.open has
\* returned ok, for the channel that call returned; the endpoint answers
\* success = true, with the timestamp and the channel, only if both calls
\* returned ok; when the open fails no message is posted; every failure
\* yields status 500 with success = false.
C23_DirectMessageProtocol ==
    /\ \A j \in 1..Len(dm.sent) :
          dm.sent[j].api = "chat.postMessage" =>
              /\ j = 2
              /\ dm.sent[1].api = "conversations.open"
              /\ dm.sent[1].target = dm.userId
              /\ dm.open.net /\ dm.open.ok
              /\ dm.sent[j].target = dm.open.channel
    /\ dm.reply.success =>
          /\ dm.reply.status = 200
          /\ dm.open.net /\ dm.open.ok
          /\ dm.post.net /\ dm.post.ok
          /\ dm.reply.messageTs = dm.post.ts
          /\ dm.reply.channel = dm.open.channel
    /\ dm.stage \in {"answered", "settled"} =>
          /\ (~dm.open.net \/ ~dm.open.ok) => Len(dm.sent) = 1
          /\ (~dm.open.net \/ ~dm.open.ok \/ ~dm.post.net \/ ~dm.post.ok) =>
                dm.reply.status = 500 /\ ~dm.reply.success

C23_Witness ==
    /\ dm.stage = "answered"
    /\ dm.userId = "U2"
    /\ dm.sent = <<[api |-> "conversations.open", target |-> "U2", text |-> ""],
                   [api |-> "chat.postMessage", target |-> "D2",
                    text |-> "welcome"]>>
    /\ dm.reply = [status |-> 200, success |-> TRUE, messageTs |-> "17.2",
                   channel |-> "D2"]

(***************************************************************************)
(* Claims about the dates and the returned set (Spec)                      *)
(***************************************************************************)
\* C24: starting from the empty store, after any passes (passes whose load
\* of the persisted set fails included), every record of the persisted
\* collection and every record a pass returns has a defined addedOn.
C24_AddedOnDefined ==
    /\ \A k \in 1..Len(file) : file[k].addedOn \in Dates
    /\ \A k \in 1..Len(userMappings) : userMappings[k].addedOn \in Dates

C24_Witness ==
    /\ pc = "done"
    /\ Len(file) = 2
    /\ existingMappings = <<>>
    /\ IdsInOrder(file) = IdsInOrder(userMappings)
    /\ file[1].addedOn < userMappings[1].addedOn
    /\ file[2].addedOn = userMappings[2].addedOn

\* C25 (as claimed): whenever a pass completes, the mapping set it returns
\* is identical (userIds, order, realName, slackTag, addedOn) to the
\* collection its save left in the store.
C25_ReturnedEqualsPersisted == pc = "done" => userMappings = file

(***************************************************************************)
(* Claims about the merge of a save (SpecMerge)                            *)
(***************************************************************************)
\* the places of the file's records with userId u
MgPlaces(u) == {j \in 1..Len(mg.current) : mg.current[j].userId = u}

\* the first of the file's records with userId u (the one find returns)
MgFirst(u) == mg.current[CHOOSE j \in MgPlaces(u) : \A i \in MgPlaces(u) : j <= i]

\* C26: for each submitted record the save stores the addedOn of the file's
\* record with the same userId when that record exists and has an addedOn,
\* and the submitted addedOn otherwise; every other field is stored as
\* submitted.
C26_ServerMerge ==
    mg.stage = "merged" =>
        /\ Len(mg.merged) = Len(mg.new)
        /\ \A k \in 1..Len(mg.new) :
              /\ mg.merged[k].userId = mg.new[k].userId
              /\ mg.merged[k].realName = mg.new[k].realName
              /\ mg.merged[k].slackTag = mg.new[k].slackTag
              /\ mg.merged[k].addedOn =
                    IF /\ MgPlaces(mg.new[k].userId) # {}
                       /\ MgFirst(mg.new[k].userId).addedOn # 0
                    THEN MgFirst(mg.new[k].userId).addedOn
                    ELSE mg.new[k].addedOn

C26_Witness ==
    /\ mg.stage = "merged"
    /\ IdsInOrder(mg.current) = <<"U1", "U2">>
    /\ mg.current[1].addedOn = 0
    /\ mg.current[2].addedOn = 1
    /\ IdsInOrder(mg.new) = <<"U2", "U1">>
    /\ mg.new[1].addedOn = MaxDate
    /\ mg.new[2].addedOn = MaxDate
    /\ mg.merged[1].addedOn = 1
    /\ mg.merged[2].addedOn = MaxDate
    /\ mg.merged[1].realName = <<"B", "b">>

(***************************************************************************)
(* Claims about two concurrent passes (SpecConcurrent)                     *)
(***************************************************************************)
\* the store after pass p has run alone (load, loop, save) on the store f
CcAlone(p, f) ==
    MergedMappings(f, Reconcile(cc.pass[p].members, cc.pass[p].infos, f,
                                cc.today).mappings)

\* the store after the serial execution of p, then q
CcSerial(p, q) == CcAlone(q, CcAlone(p, cc.store0))

CcBothSaved == \A p \in Passes : cc.pass[p].pc = "saved"

\* C27 (as claimed): when two concurrent passes have both saved, the store
\* equals the store of one of their two serial executions.
C27_Serializable ==
    CcBothSaved => cc.file \in {CcSerial("A", "B"), CcSerial("B", "A")}

\* C27 (amended): when two concurrent passes have both saved, the store has
\* the userIds, names and tags, in order, of the serial execution in the
\* order of the saves; an addedOn differs from the serial one only for a
\* userId the store held at first and the pass that saved first did not
\* emit, and is then the addedOn the store held at first.
C27_SerialUpToAddedOn ==
    CcBothSaved =>
        LET serial == CcSerial(cc.saved[1], cc.saved[2])
            first == cc.pass[cc.saved[1]].out
        IN  /\ Len(cc.file) = Len(serial)
            /\ \A k \in 1..Len(cc.file) :
                  /\ cc.file[k].userId = serial[k].userId
                  /\ cc.file[k].realName = serial[k].realName
                  /\ cc.file[k].slackTag = serial[k].slackTag
                  /\ \/ cc.file[k].addedOn = serial[k].addedOn
                     \/ /\ cc.file[k].userId \in UserIds(cc.store0)
                        /\ cc.file[k].userId \notin UserIds(first)
                        /\ cc.file[k].addedOn =
                              FoundAddedOn(cc.store0, cc.file[k].userId)

\* both passes loaded the store before either saved, and the store is the
\* store of neither serial execution
C27_Witness ==
    /\ CcBothSaved
    /\ \A p \in Passes : cc.pass[p].existing = cc.store0
    /\ cc.store0 # <<>>
    /\ cc.file # CcSerial("A", "B")
    /\ cc.file # CcSerial("B", "A")

\* C28 (as claimed): in the component that loads the stored mappings on
\* mount, whatever the order in which the load and a pass started by
\* fetchUsers complete, the users list holds no two entries with the same
\* userId (the lists received repeating none).
C28_NoDuplicateRows ==
    (ui.version = "part_003" /\ ui.clean) =>
        Cardinality(UserIds(ui.users)) = Len(ui.users)

\* C29: loading is true exactly while a pass started by fetchUsers is in
\* flight, it is false once the pass has succeeded or failed, and at most
\* one pass started from a component is in flight.
C29_LoadingFlag ==
    /\ ui.loading <=> ui.inflight > 0
    /\ ui.phase \in {"ok", "failed"} => ~ui.loading
    /\ ui.inflight <= 1

\* a second pass in flight after a first one has succeeded
C29_Witness ==
    /\ ui.loading
    /\ ui.inflight = 1
    /\ ui.returned # <<>>

(***************************************************************************)
(* Claims about the manual tag editor (SpecTagMapper)                      *)
(***************************************************************************)
\* str is empty or white space only
Blank(str) == \A k \in 1..Len(str) : str[k] = " "

\* tagPairs without the pairs at the places in gone
TmWithout(gone) ==
    [k \in 1..(Len(tm.tagPairs) - Cardinality(gone)) |->
        tm.tagPairs[CHOOSE j \in 1..Len(tm.tagPairs) :
            /\ j \notin gone
            /\ Cardinality({i \in 1..j : i \notin gone}) = k]]

\* what a step of handleAddPair or handleRemovePair does to tagPairs
TmStep ==
    /\ (tm'.last \in {"added", "rejected"}
          /\ (Blank(tm.newFullName) \/ Blank(tm.newSlackTag))) =>
            tm'.tagPairs = tm.tagPairs
    /\ (tm'.last \in {"added", "rejected"}
          /\ ~Blank(tm.newFullName) /\ ~Blank(tm.newSlackTag)) =>
            /\ Len(tm'.tagPairs) = Len(tm.tagPairs) + 1
            /\ SubSeq(tm'.tagPairs, 1, Len(tm.tagPairs)) = tm.tagPairs
    /\ tm'.last = "removed" =>
            tm'.tagPairs =
                TmWithout({j \in 1..Len(tm.tagPairs) : tm.tagPairs[j].id = tm'.arg})

\* every pair has a full name that is not blank and a tag that begins
\* with "@"
TmPairsValid ==
    \A k \in 1..Len(tm.tagPairs) :
        /\ ~Blank(tm.tagPairs[k].fullName)
        /\ tm.tagPairs[k].slackTag # <<>>
        /\ tm.tagPairs[k].slackTag[1] = "@"

\* C30: handleAddPair with a full name or a Slack tag that is blank leaves
\* tagPairs unchanged and otherwise appends exactly one pair;
\* handleRemovePair removes the pairs with the given id and no other; from
\* the empty list, every pair of tagPairs has a full name that is not blank
\* and a slackTag that begins with "@".
C30_TagMapper == [][TmStep]_vars /\ []TmPairsValid

\* a second pair added, from a tag typed without "@"; the first came from
\* a tag typed with a space in front
C30_Witness ==
    /\ tm.last = "added"
    /\ Len(tm.tagPairs) = 2
    /\ tm.tagPairs[1].slackTag = <<"@", " ", "@">>
    /\ tm.tagPairs[2].slackTag = <<"@", "a">>
    /\ tm.tagPairs[2].fullName = <<"A">>

====